---- MODULE Spec2Model ----
(***************************************************************************)
(* A model of bluele/vermouth: the middleware chain (vermouth.go), the     *)
(* scoped-middleware wrapper, the graceful observer (serve.go) and the     *)
(* instrumented response writer.                                           *)
(*                                                                         *)
(* Strings that the code inspects (patterns, request paths) are sequences  *)
(* of one-character strings, so that strings.HasPrefix and the pattern     *)
(* normalisation are computed, not assumed.                                *)
(***************************************************************************)
EXTENDS Integers, Sequences, FiniteSets, TLC

VARIABLES
    handlers,   \* vm.handlers: the registered (wrapped) middleware, in Use order
    registered, \* history: the arguments of the Use calls so far, in call order
    rootCtx,    \* vm.ctx: the root context handed to every request's chain
    phase,      \* "reg" (registration), "run" (a request in its chain), "done"
    req,        \* the request being dispatched
    stack,      \* the goroutine's call stack of chain frames, innermost last
    trace,      \* what the interceptors and the router were observed to do
    ctxDone,    \* whether the root context's Done channel is closed
    srv,        \* the graceful.Server: its state, Timeout and stop channel
    inflight,   \* the requests the server is still serving
    observer,   \* the goroutine of ObserveContext: where it is, the branch it took
    stopCalls,  \* the timeouts of the srv.Stop calls the observer has made
    rw,         \* the responseWriter: status, size, written, beforeFuncs
    dest,       \* the http.ResponseWriter it wraps (a recorder)
    wire,       \* what reached the hooks and the destination, in order
    hist,       \* history: the last operation on rw and how it was committed
    cap,        \* the optional capabilities of the destination and their use
    router,     \* vm.router: the router and the routes registered with it
    lastPanic,  \* history: the panic of the last registration call, if it panicked
    regLog,     \* history: the Use and Handle calls that returned, in call order
    options,    \* vm.Options: what NewServer configures the server with
    hcap,       \* cap(vm.handlers): the length of the backing array of vm.handlers
    spare,      \* the slots of that array past len(vm.handlers)
    gor,        \* the goroutines serving requests at once: where each is in ServeHTTP
    sharedWrites, \* history: the stores of those goroutines into the array of vm.handlers
    seen,       \* history: for each event of trace, whether its context reported cancelled
    hf,         \* the function HandlerFunc() returned last: the chain it closes over
    entry       \* history: the entry point of the last dispatch, the destination it was
                \* handed, and the Use calls and the router its chain was built from

chainVars == <<handlers, registered, rootCtx, phase, req, stack, trace>>

observerVars == <<ctxDone, srv, inflight, observer, stopCalls>>

sinkVars == <<rw, dest, wire, hist, cap>>

regVars == <<router, lastPanic, regLog, options>>

sliceVars == <<hcap, spare>>

concVars == <<gor, sharedWrites>>

funcVars == <<hf, entry>>

extVars == <<regVars, sliceVars, concVars, seen, funcVars>>

vars == <<chainVars, observerVars, sinkVars, extVars>>

----------------------------------------------------------------------------
(* Bounds *)

\* How many middleware Use registers in the chain specification.
MaxHandlers == 3

\* How many middleware Use registers in the pattern-matching specification.
MatchHandlers == 1

\* How many requests the server serves at once in the observer specification.
MaxInflight == 2

\* How many middleware Use registers in the registration specification.
MaxUses == 2

\* How many goroutines are in ServeHTTP at once.
MaxDispatchers == 2

\* How many routes Get, Post and Handle register with one router.
MaxRoutes == 1

\* How many operations are made on one response writer.
MaxOps == 4

\* How many pre-write hooks Before registers on one response writer.
MaxHooks == 2

----------------------------------------------------------------------------
(* Strings *)

\* strings.HasPrefix(s, prefix)
HasPrefix(s, prefix) ==
    /\ Len(prefix) <= Len(s)
    /\ SubSeq(s, 1, Len(prefix)) = prefix

Empty == << >>
Root == <<"/">>
Api == <<"/", "a", "p", "i">>
ApiSlash == <<"/", "a", "p", "i", "/">>
ApiX == <<"/", "a", "p", "i", "/", "x">>
ApiKey == <<"/", "a", "p", "i", "k", "e", "y">>
Ap == <<"/", "a", "p">>
Other == <<"/", "x">>
Star == <<"*">>

\* *http.Request: nil, or a request with a URL path
NilRequest == [isNil |-> TRUE, path |-> Empty]
Request(path) == [isNil |-> FALSE, path |-> path]

----------------------------------------------------------------------------
(* Contexts: context.Background() and context.WithValue *)

Background == << >>

WithValue(ctx, key, val) == <<[key |-> key, val |-> val]>> \o ctx

NoValue == -1

RECURSIVE Value(_, _)
Value(ctx, key) ==
    IF ctx = << >> THEN NoValue
    ELSE IF Head(ctx).key = key THEN Head(ctx).val
    ELSE Value(Tail(ctx), key)

\* ctx.Err(): a child made by context.WithValue has no cancellation of its
\* own and answers with its parent's, down to the context that can be
\* cancelled, whose Done channel is closed or not.
NoError == "nil"
Canceled == "context canceled"

RECURSIVE Err(_)
Err(ctx) ==
    IF ctx = << >> THEN (IF ctxDone THEN Canceled ELSE NoError)
    ELSE Err(Tail(ctx))

----------------------------------------------------------------------------
(* Handlers and the chain *)

\* A user-supplied middleware, as far as the chain can tell it apart: its
\* shape (MiddlewareType), whether it calls next, whether it hands next a
\* child context that sets "key", and the status code it commits through the
\* response writer it is handed (0 when it commits none).
Middleware(id, shape, callsNext, derives) ==
    [id |-> id, shape |-> shape, callsNext |-> callsNext, derives |-> derives,
     code |-> 0]

\* A middleware that calls w.WriteHeader(code) before it calls next or returns.
StatusMiddleware(id, callsNext, code) ==
    [Middleware(id, "handler", callsNext, FALSE) EXCEPT !.code = code]

\* The context a middleware hands to next.
NextContext(mw, ctx) ==
    IF mw.shape = "ctx" /\ mw.derives THEN WithValue(ctx, "key", mw.id) ELSE ctx

\* panic(v): the call does not return.
Panic(v) == [panic |-> v]

IsPanic(v) == "panic" \in DOMAIN v

NoPanic == [op |-> "none"]

\* wrapMiddlewareFunc returning what it is given when it is no middleware.
wrapMiddlewareFuncLenient(mw) ==
    CASE mw.shape = "handler" -> mw
      [] mw.shape = "ctx" -> mw
      [] mw.shape = "plain" -> [mw EXCEPT !.derives = FALSE]
      [] OTHER -> mw

\* wrapMiddlewareFunc taking the context-free function for one that is handed
\* the context and a next that takes one.
wrapMiddlewareFuncAsCtx(mw) ==
    CASE mw.shape = "handler" -> mw
      [] mw.shape = "ctx" -> mw
      [] mw.shape = "plain" -> [mw EXCEPT !.shape = "ctx"]
      [] OTHER -> Panic("Unknown middleware type")

wrapMiddlewareFunc(mw) ==
    CASE mw.shape = "handler" -> mw
      [] mw.shape = "ctx" -> mw
      [] mw.shape = "plain" -> [mw EXCEPT !.derives = FALSE]
      [] OTHER -> Panic("Unknown middleware type")

\* A user-supplied terminal handler (HandlerType) of the given shape.
TerminalHandler(shape) == [shape |-> shape]

wrapHandlerFunc(handler) ==
    CASE handler.shape = "ctxfunc" -> handler
      [] handler.shape = "func" -> handler
      [] handler.shape = "ContextHandler" -> handler
      [] handler.shape = "httpHandler" -> handler
      [] OTHER -> Panic("Unknown handler type")

\* makeRoutingHandler without the normalisation of the pattern.
makeRoutingHandlerRaw(pattern, handler) ==
    [kind |-> "routing", isWildcard |-> pattern = Empty \/ pattern = Root,
     pattern |-> pattern, handler |-> handler]

\* makeRoutingHandler taking only the empty pattern for a wildcard.
makeRoutingHandlerEmptyOnly(pattern, handler) ==
    LET isWildcard == pattern = Empty
        normalized ==
            IF ~isWildcard /\ pattern[Len(pattern)] # "/"
            THEN Append(pattern, "/")
            ELSE pattern
    IN  [kind |-> "routing", isWildcard |-> isWildcard,
         pattern |-> normalized, handler |-> handler]

makeRoutingHandler(pattern, handler) ==
    LET isWildcard == pattern = Empty \/ pattern = Root
        normalized ==
            IF ~isWildcard /\ pattern[Len(pattern)] # "/"
            THEN Append(pattern, "/")
            ELSE pattern
    IN  [kind |-> "routing", isWildcard |-> isWildcard,
         pattern |-> normalized, handler |-> handler]

\* The wrapper falling through to next after the wrapped middleware returns.
RoutingBodyFallsThrough(h, r) ==
    IF r.isNil \/ h.isWildcard \/ HasPrefix(Append(r.path, "/"), h.pattern)
    THEN <<"handler", "next">>
    ELSE <<"next">>

\* The wrapper as a hard gate: nothing runs when the path is outside the prefix.
RoutingBodyGate(h, r) ==
    IF r.isNil \/ h.isWildcard \/ HasPrefix(Append(r.path, "/"), h.pattern)
    THEN <<"handler">>
    ELSE << >>

\* The wrapper passing a nil request through instead of activating.
RoutingBodyNilSkips(h, r) ==
    IF r.isNil THEN <<"next">>
    ELSE IF h.isWildcard \/ HasPrefix(Append(r.path, "/"), h.pattern)
         THEN <<"handler">>
         ELSE <<"next">>

\* The calls the closure returned by makeRoutingHandler makes for request r.
RoutingBody(h, r) ==
    IF r.isNil \/ h.isWildcard
    THEN <<"handler">>
    ELSE IF HasPrefix(Append(r.path, "/"), h.pattern)
         THEN <<"handler">>
         ELSE <<"next">>

wrapHandler(handler) == [kind |-> "router", router |-> handler]

\* The calls the closure returned by wrapHandler makes.
RouterBody == <<"router", "next">>

ZeroMiddleware == [handler |-> [kind |-> "nil"]]

voidMiddleware == [handler |-> [kind |-> "void"], next |-> ZeroMiddleware]

\* build without its recursion: only the first handler is linked.
buildFirstOnly(hs) ==
    IF Len(hs) = 0 THEN voidMiddleware
    ELSE [handler |-> hs[1], next |-> voidMiddleware]

RECURSIVE build(_)

\* build recursing only on a list of more than two handlers.
buildShort(hs) ==
    IF Len(hs) = 0 THEN voidMiddleware
    ELSE [handler |-> hs[1],
          next |-> IF Len(hs) > 2 THEN build(Tail(hs)) ELSE voidMiddleware]

build(hs) ==
    IF Len(hs) = 0 THEN voidMiddleware
    ELSE [handler |-> hs[1],
          next |-> IF Len(hs) > 1 THEN build(Tail(hs)) ELSE voidMiddleware]

\* The kinds of the handlers linked in the chain m, first to last.
RECURSIVE Links(_)
Links(m) ==
    IF m.handler.kind \in {"void", "nil"} THEN << >>
    ELSE <<m.handler.kind>> \o Links(m.next)

\* What a handler's closure does when it is invoked with request r.
Body(h, r) ==
    CASE h.kind = "routing" -> RoutingBody(h, r)
      [] h.kind = "router" -> RouterBody
      [] h.kind = "void" -> << >>

\* middleware.ServeHTTP handing the handler a fresh context instead of ctx.
FrameDropsContext(m, ctx, w, r) ==
    [m |-> m, ctx |-> Background, w |-> w, r |-> r, todo |-> Body(m.handler, r), wait |-> "none"]

\* middleware.ServeHTTP handing the handler a response writer of its own
\* instead of the one it was called with.
FrameOwnWriter(m, ctx, w, r) ==
    [m |-> m, ctx |-> ctx, w |-> [w EXCEPT !.dest = 0], r |-> r,
     todo |-> Body(m.handler, r), wait |-> "none"]

\* middleware.ServeHTTP returning at once when the context is cancelled.
FrameAbortsOnCancel(m, ctx, w, r) ==
    [m |-> m, ctx |-> ctx, w |-> w, r |-> r,
     todo |-> IF Err(ctx) = NoError THEN Body(m.handler, r) ELSE << >>, wait |-> "none"]

\* middleware.ServeHTTP: the frame of m.handler.ServeHTTP(ctx, w, r, m.next.ServeHTTP)
Frame(m, ctx, w, r) ==
    [m |-> m, ctx |-> ctx, w |-> w, r |-> r, todo |-> Body(m.handler, r), wait |-> "none"]

StatusOK == 200
StatusBadRequest == 400
StatusNotFound == 404

\* NewResponseWriter with the zero status of an unset int.
NewResponseWriterZero(w) ==
    [dest |-> w, status |-> 0, size |-> 0, written |-> FALSE, beforeFuncs |-> << >>]

\* The response sink wrapping destination w.
NewResponseWriter(w) ==
    [dest |-> w, status |-> StatusOK, size |-> 0, written |-> FALSE, beforeFuncs |-> << >>]

\* The destination w handed on as it is, with no sink around it.
Unwrapped(w) == [dest |-> w]

\* Whether w is a response sink (a vermouth.ResponseWriter).
IsSink(w) == "status" \in DOMAIN w

\* NewRouter(): a router without routes.
NewRouter(id) == [id |-> id, routes |-> << >>]

Router == NewRouter(1)

\* router.Handle(method, pattern, handler): one more route.
RouterHandle(rt, method, pattern, h) ==
    [rt EXCEPT !.routes = Append(@, [method |-> method, pattern |-> pattern, handler |-> h])]

\* append growing a full backing array: the capacity it allocates.
GrowCap(c) == IF c = 0 THEN 1 ELSE 2 * c

\* Whether append(s, x) stores x in the backing array of s.
InPlace(elems, capacity) == Len(elems) < capacity

ZeroSlots(n) == [i \in 1..n |-> [kind |-> "nil"]]

\* Use putting the new handler at the head of the list.
useAppendFirst(hs, pattern, handler) == <<makeRoutingHandler(pattern, handler)>> \o hs

\* append(vm.handlers, makeRoutingHandler(pattern, handler))
useAppend(hs, pattern, handler) == Append(hs, makeRoutingHandler(pattern, handler))

\* The chain with the router adapter ahead of the middleware.
withRouterFirst(hs, rt) == <<wrapHandler(rt)>> \o hs

\* append(vm.handlers, wrapHandler(vm.router))
withRouter(hs, rt) == Append(hs, wrapHandler(rt))

Event(ev, id, ctx) == [ev |-> ev, id |-> id, ctx |-> ctx]

----------------------------------------------------------------------------
(* The response writer *)

StatusCodes == {StatusOK, StatusBadRequest, StatusNotFound}

WriteSizes == {0, 1, 2}

\* httptest.NewRecorder()
NewRecorder == [code |-> StatusOK, wroteHeader |-> FALSE, body |-> 0]

\* The recorder's WriteHeader: the first header stands.
RecorderWriteHeader(d, code) ==
    IF d.wroteHeader THEN d ELSE [d EXCEPT !.code = code, !.wroteHeader = TRUE]

\* The recorder's Write.
RecorderWrite(d, n) == [d EXCEPT !.wroteHeader = TRUE, !.body = @ + n]

WireEvent(kind, v) == [kind |-> kind, v |-> v]

\* The pre-write hooks called in the order of their registration.
callBeforeForward(w) ==
    [i \in 1..Len(w.beforeFuncs) |-> WireEvent("hook", w.beforeFuncs[i])]

\* The pre-write hooks are called, the last registered first.
callBefore(w) ==
    [i \in 1..Len(w.beforeFuncs) |->
        WireEvent("hook", w.beforeFuncs[Len(w.beforeFuncs) + 1 - i])]

\* The sink and what it wraps, as one value the operations transform.
SinkState == [rw |-> rw, dest |-> dest, wire |-> wire]

\* WriteHeader taking effect whether or not the response is committed.
WriteHeaderAlways(S, code) ==
    [rw |-> [S.rw EXCEPT !.status = code, !.written = TRUE],
     dest |-> RecorderWriteHeader(S.dest, code),
     wire |-> S.wire \o callBefore(S.rw) \o <<WireEvent("header", code)>>]

\* WriteHeader(code): commits the response with code, unless it is committed.
WriteHeader(S, code) ==
    IF S.rw.written THEN S
    ELSE [rw |-> [S.rw EXCEPT !.status = code, !.written = TRUE],
          dest |-> RecorderWriteHeader(S.dest, code),
          wire |-> S.wire \o callBefore(S.rw) \o <<WireEvent("header", code)>>]

\* Write recording the size of the last write instead of adding it.
WriteSetsSize(S, n) ==
    LET C == WriteHeader(S, StatusOK)
    IN  [rw |-> [C.rw EXCEPT !.size = n],
         dest |-> RecorderWrite(C.dest, n),
         wire |-> Append(C.wire, WireEvent("bytes", n))]

\* Write(b) with n bytes: commits with the default status first if need be.
Write(S, n) ==
    LET C == WriteHeader(S, StatusOK)
    IN  [rw |-> [C.rw EXCEPT !.size = @ + n],
         dest |-> RecorderWrite(C.dest, n),
         wire |-> Append(C.wire, WireEvent("bytes", n))]

\* Before(fn): one more pre-write hook.
Before(S, fn) == [S EXCEPT !.rw.beforeFuncs = Append(@, fn)]

NoHistory ==
    [lastOp |-> "none", arg |-> 0, late |-> FALSE, ops |-> 0,
     commitOp |-> "none", hooksAtCommit |-> 0, writes |-> << >>]

Record(op, arg) ==
    LET commits == hist.commitOp = "none" /\ op \in {"WriteHeader", "Write"}
    IN  [lastOp |-> op, arg |-> arg, late |-> rw.written, ops |-> hist.ops + 1,
         commitOp |-> IF commits THEN op ELSE hist.commitOp,
         hooksAtCommit |-> IF commits THEN Len(rw.beforeFuncs) ELSE hist.hooksAtCommit,
         writes |-> IF op = "Write" THEN Append(hist.writes, arg) ELSE hist.writes]

Apply(S, op, arg) ==
    /\ rw' = S.rw
    /\ dest' = S.dest
    /\ wire' = S.wire
    /\ hist' = Record(op, arg)
    /\ UNCHANGED cap
    /\ UNCHANGED <<chainVars, observerVars, extVars>>

DoBefore ==
    /\ hist.ops < MaxOps
    /\ Len(rw.beforeFuncs) < MaxHooks
    /\ Apply(Before(SinkState, Len(rw.beforeFuncs) + 1), "Before", Len(rw.beforeFuncs) + 1)

DoWriteHeader(code) ==
    /\ hist.ops < MaxOps
    /\ Apply(WriteHeader(SinkState, code), "WriteHeader", code)

DoWrite(n) ==
    /\ hist.ops < MaxOps
    /\ Apply(Write(SinkState, n), "Write", n)

\* The optional capabilities: http.Flusher, http.Hijacker, http.CloseNotifier.
Capabilities == {"flush", "hijack", "closeNotify"}

\* A destination with the capabilities c, none of them used yet.
Destination(c) ==
    [supports |-> c, hijacked |-> FALSE, flushed |-> FALSE, notifier |-> "none",
     result |-> "none"]

\* What Flush() and CloseNotify() can do over a destination without the
\* capability: neither has an error among its results, so they return as if
\* nothing had happened or do not return at all.
Unreported == {"nothing", "panic"}

\* Hijack succeeding over a destination that is no http.Hijacker.
HijackSilent(c) ==
    IF "hijack" \in c.supports
    THEN [c EXCEPT !.hijacked = TRUE, !.result = "ok"]
    ELSE [c EXCEPT !.result = "ok"]

\* Hijack(): the destination's Hijack, or an error when it has none.
Hijack(c) ==
    IF "hijack" \in c.supports
    THEN [c EXCEPT !.hijacked = TRUE, !.result = "ok"]
    ELSE [c EXCEPT !.result = "error"]

\* Flush(): the destination's Flush when it has one.
Flush(c, outcome) ==
    IF "flush" \in c.supports
    THEN [c EXCEPT !.flushed = TRUE, !.result = "ok"]
    ELSE [c EXCEPT !.result = outcome]

\* CloseNotify(): the destination's channel when it has one.
CloseNotify(c, outcome) ==
    IF "closeNotify" \in c.supports
    THEN [c EXCEPT !.notifier = "dest", !.result = "ok"]
    ELSE [c EXCEPT !.result = outcome]

Invoke(c, op) ==
    /\ hist.ops < MaxOps
    /\ cap' = c
    /\ hist' = Record(op, 0)
    /\ UNCHANGED <<rw, dest, wire>>
    /\ UNCHANGED <<chainVars, observerVars, extVars>>

DoHijack == Invoke(Hijack(cap), "hijack")

DoFlush(outcome) == Invoke(Flush(cap, outcome), "flush")

DoCloseNotify(outcome) == Invoke(CloseNotify(cap, outcome), "closeNotify")

----------------------------------------------------------------------------
(* Registration *)

Use(pattern, mw) ==
    /\ phase = "reg"
    /\ LET handler == wrapMiddlewareFunc(mw)
       IN  IF IsPanic(handler)
           THEN /\ lastPanic' = [op |-> "Use", value |-> handler.panic]
                /\ UNCHANGED <<handlers, registered, regLog, sliceVars>>
           ELSE /\ handlers' = useAppend(handlers, pattern, handler)
                /\ registered' = Append(registered, [pattern |-> pattern, mw |-> mw])
                /\ hcap' = IF InPlace(handlers, hcap) THEN hcap ELSE GrowCap(hcap)
                /\ spare' = IF InPlace(handlers, hcap)
                            THEN Tail(spare)
                            ELSE ZeroSlots(GrowCap(hcap) - Len(handlers) - 1)
                /\ regLog' = Append(regLog, "Use")
                /\ lastPanic' = NoPanic
    /\ UNCHANGED <<rootCtx, phase, req, stack, trace>>
    /\ UNCHANGED <<router, options>>
    /\ UNCHANGED <<observerVars, sinkVars, concVars, seen, funcVars>>

SetContext(ctx) ==
    /\ phase # "run"
    /\ rootCtx' = ctx
    /\ UNCHANGED <<handlers, registered, phase, req, stack, trace>>
    /\ UNCHANGED <<observerVars, sinkVars, extVars>>

SetRouter(rt) ==
    /\ phase = "reg"
    /\ router' = rt
    /\ lastPanic' = NoPanic
    /\ UNCHANGED <<regLog, options>>
    /\ UNCHANGED <<chainVars, observerVars, sinkVars, sliceVars, concVars, seen, funcVars>>

Handle(method, pattern, handler) ==
    /\ phase = "reg"
    /\ LET h == wrapHandlerFunc(handler)
       IN  IF IsPanic(h)
           THEN /\ lastPanic' = [op |-> "Handle", value |-> h.panic]
                /\ UNCHANGED <<router, regLog>>
           ELSE /\ router' = RouterHandle(router, method, pattern, h)
                /\ regLog' = Append(regLog, "Handle")
                /\ lastPanic' = NoPanic
    /\ UNCHANGED options
    /\ UNCHANGED <<chainVars, observerVars, sinkVars, sliceVars, concVars, seen, funcVars>>

Get(pattern, handler) ==
    /\ Len(router.routes) < MaxRoutes
    /\ Handle("GET", pattern, handler)

Post(pattern, handler) ==
    /\ Len(router.routes) < MaxRoutes
    /\ Handle("POST", pattern, handler)

----------------------------------------------------------------------------
(* Dispatch *)

\* No function returned by HandlerFunc() yet; no request dispatched yet.
NoFunc == [made |-> FALSE]

NoEntry == [point |-> "none", w |-> 0, uses |-> 0, rt |-> 0]

\* ServeHTTP(w, r)
ServeHTTPTo(w, r) ==
    /\ phase \in {"reg", "done"}
    /\ LET md == build(withRouter(handlers, router))
       IN  stack' = <<Frame(md, rootCtx, NewResponseWriter(w), r)>>
    /\ entry' = [point |-> "ServeHTTP", w |-> w, uses |-> Len(registered), rt |-> router.id]
    /\ UNCHANGED hf
    /\ spare' = IF InPlace(handlers, hcap)
                THEN [spare EXCEPT ![1] = wrapHandler(router)]
                ELSE spare
    /\ rw' = NewResponseWriter(w)
    /\ dest' = NewRecorder
    /\ wire' = << >>
    /\ hist' = NoHistory
    /\ UNCHANGED cap
    /\ req' = r
    /\ trace' = << >>
    /\ phase' = "run"
    /\ UNCHANGED <<handlers, registered, rootCtx>>
    /\ seen' = << >>
    /\ UNCHANGED <<observerVars, regVars, hcap, concVars>>

\* ServeHTTP called with the one destination of the specifications that
\* tell no destinations apart.
ServeHTTP(r) == ServeHTTPTo(1, r)

\* HandlerFunc(): the chain is built once, from the handlers and the router
\* of this moment (Use calls before it: uses; that router: rt), and the
\* function returned closes over it.
HandlerFunc ==
    /\ phase \in {"reg", "done"}
    /\ hf' = [made |-> TRUE, md |-> build(withRouter(handlers, router)),
              uses |-> Len(registered), rt |-> router.id]
    /\ spare' = IF InPlace(handlers, hcap)
                THEN [spare EXCEPT ![1] = wrapHandler(router)]
                ELSE spare
    /\ UNCHANGED entry
    /\ UNCHANGED <<chainVars, observerVars, sinkVars, regVars, hcap, concVars, seen>>

\* The function HandlerFunc() returned building the chain at every call.
CallFuncRebuilds(w, r) ==
    /\ hf.made
    /\ phase \in {"reg", "done"}
    /\ stack' = <<Frame(build(withRouter(handlers, router)), rootCtx, Unwrapped(w), r)>>
    /\ entry' = [point |-> "HandlerFunc", w |-> w, uses |-> hf.uses, rt |-> hf.rt]
    /\ dest' = NewRecorder
    /\ wire' = << >>
    /\ hist' = NoHistory
    /\ UNCHANGED <<rw, cap>>
    /\ req' = r
    /\ trace' = << >>
    /\ seen' = << >>
    /\ phase' = "run"
    /\ UNCHANGED <<handlers, registered, rootCtx, hf>>
    /\ UNCHANGED <<observerVars, regVars, sliceVars, concVars>>

\* The function HandlerFunc() returned, called with (w, r): the chain it
\* closes over is run with vm.ctx as it is now and with w itself.
CallFunc(w, r) ==
    /\ hf.made
    /\ phase \in {"reg", "done"}
    /\ stack' = <<Frame(hf.md, rootCtx, Unwrapped(w), r)>>
    /\ entry' = [point |-> "HandlerFunc", w |-> w, uses |-> hf.uses, rt |-> hf.rt]
    /\ dest' = NewRecorder
    /\ wire' = << >>
    /\ hist' = NoHistory
    /\ UNCHANGED <<rw, cap>>
    /\ req' = r
    /\ trace' = << >>
    /\ seen' = << >>
    /\ phase' = "run"
    /\ UNCHANGED <<handlers, registered, rootCtx, hf>>
    /\ UNCHANGED <<observerVars, regVars, sliceVars, concVars>>

Top == stack[Len(stack)]

Replace(s, fr) == [s EXCEPT ![Len(s)] = fr]

\* The wrapper calls handler.ServeHTTP(ctx, w, r, next): the wrapped
\* middleware runs up to its call of next, or to its end when it makes none;
\* a status it commits goes through the response writer of the request.
CallHandler ==
    /\ phase = "run"
    /\ stack # << >>
    /\ Top.wait = "none"
    /\ Top.todo # << >>
    /\ Head(Top.todo) = "handler"
    /\ LET fr == Top
           mw == fr.m.handler.handler
       IN  IF mw.callsNext
           THEN /\ trace' = Append(trace, Event("B", mw.id, fr.ctx))
                /\ seen' = Append(seen, Err(fr.ctx) # NoError)
                /\ stack' = Append(
                       Replace(stack, [fr EXCEPT !.todo = Tail(@), !.wait = "mw"]),
                       Frame(fr.m.next, NextContext(mw, fr.ctx), fr.w, fr.r))
           ELSE /\ trace' = trace \o <<Event("B", mw.id, fr.ctx), Event("A", mw.id, fr.ctx)>>
                /\ seen' = seen \o <<Err(fr.ctx) # NoError, Err(fr.ctx) # NoError>>
                /\ stack' = Replace(stack, [fr EXCEPT !.todo = Tail(@)])
    /\ LET mw == Top.m.handler.handler
       IN  IF mw.code = 0
           THEN UNCHANGED sinkVars
           ELSE IF ~IsSink(Top.w)
           THEN /\ dest' = RecorderWriteHeader(dest, mw.code)
                /\ wire' = Append(wire, WireEvent("header", mw.code))
                /\ UNCHANGED <<rw, hist, cap>>
           ELSE IF Top.w.dest # rw.dest
           THEN UNCHANGED sinkVars
           ELSE LET S == WriteHeader(SinkState, mw.code)
                IN  /\ rw' = S.rw
                    /\ dest' = S.dest
                    /\ wire' = S.wire
                    /\ hist' = Record("WriteHeader", mw.code)
                    /\ UNCHANGED cap
    /\ UNCHANGED <<handlers, registered, rootCtx, phase, req>>
    /\ UNCHANGED <<observerVars, regVars, sliceVars, concVars, funcVars>>

\* The router adapter calls handler.ServeHTTP(ctx, w, r): the router runs the
\* terminal handler and returns.
CallRouter ==
    /\ phase = "run"
    /\ stack # << >>
    /\ Top.wait = "none"
    /\ Top.todo # << >>
    /\ Head(Top.todo) = "router"
    /\ trace' = Append(trace, Event("R", 0, Top.ctx))
    /\ seen' = Append(seen, Err(Top.ctx) # NoError)
    /\ stack' = Replace(stack, [Top EXCEPT !.todo = Tail(@)])
    /\ UNCHANGED <<handlers, registered, rootCtx, phase, req>>
    /\ UNCHANGED <<observerVars, sinkVars, regVars, sliceVars, concVars, funcVars>>

\* A wrapper calls next(ctx, w, r) itself.
CallNext ==
    /\ phase = "run"
    /\ stack # << >>
    /\ Top.wait = "none"
    /\ Top.todo # << >>
    /\ Head(Top.todo) = "next"
    /\ LET fr == Top
       IN  stack' = Append(
               Replace(stack, [fr EXCEPT !.todo = Tail(@), !.wait = "wrapper"]),
               Frame(fr.m.next, fr.ctx, fr.w, fr.r))
    /\ UNCHANGED <<handlers, registered, rootCtx, phase, req, trace>>
    /\ UNCHANGED <<observerVars, sinkVars, extVars>>

\* The innermost call has nothing left to do and returns to its caller; a
\* middleware that was waiting in next runs its after-code.
Return ==
    /\ phase = "run"
    /\ stack # << >>
    /\ Top.wait = "none"
    /\ Top.todo = << >>
    /\ LET rest == SubSeq(stack, 1, Len(stack) - 1)
       IN  IF rest = << >>
           THEN /\ stack' = rest
                /\ phase' = "done"
                /\ trace' = trace
                /\ seen' = seen
           ELSE LET caller == rest[Len(rest)]
                IN  /\ stack' = Replace(rest, [caller EXCEPT !.wait = "none"])
                    /\ phase' = phase
                    /\ trace' =
                         IF caller.wait = "mw"
                         THEN Append(trace, Event("A", caller.m.handler.handler.id, caller.ctx))
                         ELSE trace
                    /\ seen' =
                         IF caller.wait = "mw"
                         THEN Append(seen, Err(caller.ctx) # NoError)
                         ELSE seen
    /\ UNCHANGED <<handlers, registered, rootCtx, req>>
    /\ UNCHANGED <<observerVars, sinkVars, regVars, sliceVars, concVars, funcVars>>

----------------------------------------------------------------------------
(* The graceful observer (serve.go) *)

GraceTimeouts == {0, 5, 10}

\* vm.Options = nil
NilOptions == [nil |-> TRUE]

\* defaultOptions(): every option at its zero value but NoSignalHandling.
defaultOptions ==
    [ReadTimeout |-> 0, WriteTimeout |-> 0, MaxHeaderBytes |-> 0, TLSConfig |-> "nil",
     TLSNextProto |-> "nil", ConnState |-> "nil", GracefulTimeout |-> 0,
     ListenLimit |-> 0, ShutdownInitiated |-> "nil", NoSignalHandling |-> TRUE,
     ErrorLog |-> "nil"]

\* No server made yet.
NoServer == [state |-> "none"]

\* NewServer: the graceful.Server of the Dispatcher over its http.Server, not
\* yet serving, with the fields the two struct literals set; the fields they
\* leave out have their zero value.
NewServer(opts) ==
    LET o == IF opts = NilOptions THEN defaultOptions ELSE opts
    IN  [state |-> "new", stopChanClosed |-> FALSE,
         Handler |-> "vm",
         ReadTimeout |-> o.ReadTimeout,
         WriteTimeout |-> o.WriteTimeout,
         MaxHeaderBytes |-> o.MaxHeaderBytes,
         TLSConfig |-> o.TLSConfig,
         TLSNextProto |-> o.TLSNextProto,
         ErrorLog |-> o.ErrorLog,
         Timeout |-> o.GracefulTimeout,
         ListenLimit |-> o.ListenLimit,
         ConnState |-> o.ConnState,
         NoSignalHandling |-> o.NoSignalHandling,
         ShutdownInitiated |-> "nil"]

\* srv.Stop(timeout): the server starts its graceful shutdown.
Stop(s, timeout) ==
    [s EXCEPT !.Timeout = timeout,
              !.state = IF @ = "serving" THEN "stopping" ELSE @]

\* The cases of the select in ObserveContext / observeContext: the context's
\* Done channel and the server's stop channel, or the Done channel alone.
BothCases == {"ctx", "stop"}
CtxCaseOnly == {"ctx"}

\* The cases of the observer's select that are ready.
ReadyBranches ==
    observer.cases \cap
    ((IF ctxDone THEN {"ctx"} ELSE {}) \cup (IF srv.stopChanClosed THEN {"stop"} ELSE {}))

\* The observer calling Stop in both branches of its select.
BranchStopsAlways(branch, s) == <<s.Timeout>>

\* The observer calling Stop in the branch of the stop channel, not in the
\* branch of the context.
BranchStopsSwapped(branch, s) ==
    IF branch = "stop" THEN <<s.Timeout>> ELSE << >>

\* The srv.Stop calls a branch of the observer's select makes, by timeout.
BranchStops(branch, s) ==
    IF branch = "ctx" THEN <<s.Timeout>> ELSE << >>

\* Serve / ServeListener: the observer goroutine starts, its select waiting on
\* the Done channel of the context vm.ctx is then, and the server serves.
Serve ==
    /\ srv.state = "new"
    /\ observer.pc = "idle"
    /\ observer' = [observer EXCEPT !.pc = "select", !.ctx = rootCtx]
    /\ srv' = [srv EXCEPT !.state = "serving"]
    /\ UNCHANGED <<ctxDone, inflight, stopCalls>>
    /\ UNCHANGED <<chainVars, sinkVars, extVars>>

\* The root context is cancelled (or its deadline passes).
Cancel ==
    /\ ~ctxDone
    /\ ctxDone' = TRUE
    /\ UNCHANGED <<srv, inflight, observer, stopCalls>>
    /\ UNCHANGED <<chainVars, sinkVars, extVars>>

\* The server takes a request.
Accept ==
    /\ srv.state = "serving"
    /\ inflight < MaxInflight
    /\ inflight' = inflight + 1
    /\ UNCHANGED <<ctxDone, srv, observer, stopCalls>>
    /\ UNCHANGED <<chainVars, sinkVars, extVars>>

\* A request the server took completes.
Finish ==
    /\ inflight > 0
    /\ inflight' = inflight - 1
    /\ UNCHANGED <<ctxDone, srv, observer, stopCalls>>
    /\ UNCHANGED <<chainVars, sinkVars, extVars>>

\* The server is stopped by something other than the observer.
ServerStops ==
    /\ srv.state = "serving"
    /\ srv' = [srv EXCEPT !.state = "stopping"]
    /\ UNCHANGED <<ctxDone, inflight, observer, stopCalls>>
    /\ UNCHANGED <<chainVars, sinkVars, extVars>>

\* The shutdown ends, when no request is left or the grace period is over,
\* and the server closes its stop channel.
ShutdownComplete ==
    /\ srv.state = "stopping"
    /\ inflight = 0 \/ srv.Timeout > 0
    /\ srv' = [srv EXCEPT !.state = "stopped", !.stopChanClosed = TRUE]
    /\ inflight' = 0
    /\ UNCHANGED <<ctxDone, observer, stopCalls>>
    /\ UNCHANGED <<chainVars, sinkVars, extVars>>

\* The observer leaves its select by a ready branch and returns.
Observe(branch) ==
    /\ observer.pc = "select"
    /\ branch \in ReadyBranches
    /\ LET calls == BranchStops(branch, srv)
       IN  /\ stopCalls' = stopCalls \o calls
           /\ srv' = IF calls = << >> THEN srv ELSE Stop(srv, calls[1])
    /\ observer' = [observer EXCEPT !.pc = "done", !.branch = branch]
    /\ UNCHANGED <<ctxDone, inflight>>
    /\ UNCHANGED <<chainVars, sinkVars, extVars>>

\* vm.Options = o: the exported field is assigned before the server is made.
SetOptions(o) ==
    /\ srv = NoServer
    /\ options' = o
    /\ UNCHANGED <<router, lastPanic, regLog>>
    /\ UNCHANGED <<chainVars, observerVars, sinkVars, sliceVars, concVars, seen, funcVars>>

\* srv := vm.NewServer()
MakeServer ==
    /\ srv = NoServer
    /\ srv' = NewServer(options)
    /\ UNCHANGED <<ctxDone, inflight, observer, stopCalls>>
    /\ UNCHANGED <<chainVars, sinkVars, extVars>>

----------------------------------------------------------------------------
(* ServeHTTP in several goroutines at once *)

Goroutines == 1..MaxDispatchers

\* A goroutine that has not entered ServeHTTP.
Idle == [pc |-> "idle", shared |-> FALSE, slice |-> << >>]

\* append(vm.handlers, wrapHandler(vm.router)) in goroutine g: with room in
\* the backing array of vm.handlers the adapter is stored in that array, in
\* the slot past len(vm.handlers), and the slice append returns shares the
\* array; without room the slice is a copy of the goroutine's own.
DispatchAppend(g) ==
    /\ gor[g].pc = "idle"
    /\ IF InPlace(handlers, hcap)
       THEN /\ spare' = [spare EXCEPT ![1] = wrapHandler(router)]
            /\ sharedWrites' = Append(sharedWrites, [by |-> g, slot |-> Len(handlers) + 1])
            /\ gor' = [gor EXCEPT ![g] = [pc |-> "appended", shared |-> TRUE, slice |-> << >>]]
       ELSE /\ gor' = [gor EXCEPT ![g] = [pc |-> "appended", shared |-> FALSE,
                                          slice |-> withRouter(handlers, router)]]
            /\ UNCHANGED <<spare, sharedWrites>>
    /\ UNCHANGED hcap
    /\ UNCHANGED <<chainVars, observerVars, sinkVars, regVars, seen, funcVars>>

\* build(...) and md.ServeHTTP(...) in goroutine g: the chain is built from the
\* slice append returned, read from the shared array when the slice shares it.
DispatchServe(g) ==
    /\ gor[g].pc = "appended"
    /\ LET slice == IF gor[g].shared THEN Append(handlers, spare[1]) ELSE gor[g].slice
       IN  gor' = [gor EXCEPT ![g] = [pc |-> "done", shared |-> gor[g].shared,
                                      slice |-> Links(build(slice))]]
    /\ UNCHANGED <<spare, hcap, sharedWrites>>
    /\ UNCHANGED <<chainVars, observerVars, sinkVars, regVars, seen, funcVars>>

----------------------------------------------------------------------------
(* The specifications *)

ChainPatterns == {Root, Api}

ChainRequests == {NilRequest, Request(ApiX), Request(ApiKey)}

RootContexts == {Background, WithValue(Background, "key", 0)}

\* The middleware Use is given as the n-th registration.
UserMiddleware(n) ==
    {Middleware(n, "ctx", TRUE, FALSE), Middleware(n, "ctx", TRUE, TRUE),
     Middleware(n, "ctx", FALSE, FALSE), Middleware(n, "plain", TRUE, FALSE)}

\* New(): no middleware, the background context, nothing dispatched.
ChainInit ==
    /\ handlers = << >>
    /\ registered = << >>
    /\ rootCtx = Background
    /\ phase = "reg"
    /\ req = NilRequest
    /\ stack = << >>
    /\ trace = << >>
    /\ router = Router
    /\ lastPanic = NoPanic
    /\ regLog = << >>
    /\ options = defaultOptions
    /\ hcap = 0
    /\ spare = << >>
    /\ gor = [g \in Goroutines |-> Idle]
    /\ sharedWrites = << >>
    /\ seen = << >>
    /\ hf = NoFunc
    /\ entry = NoEntry

ObserverInit ==
    /\ ctxDone = FALSE
    /\ srv \in {NewServer([defaultOptions EXCEPT !.GracefulTimeout = t]) : t \in GraceTimeouts}
    /\ inflight = 0
    /\ observer \in {[pc |-> "idle", branch |-> "none", cases |-> c, ctx |-> Background] :
                        c \in {BothCases, CtxCaseOnly}}
    /\ stopCalls = << >>

SinkFresh ==
    /\ rw = NewResponseWriter(1)
    /\ dest = NewRecorder
    /\ wire = << >>
    /\ hist = NoHistory

\* A response writer over a recorder, which can flush and nothing more.
SinkInit ==
    /\ SinkFresh
    /\ cap = Destination({"flush"})

ObserverIdle ==
    /\ ctxDone = FALSE
    /\ srv = NewServer(defaultOptions)
    /\ inflight = 0
    /\ observer = [pc |-> "idle", branch |-> "none", cases |-> BothCases, ctx |-> Background]
    /\ stopCalls = << >>

Init == ChainInit /\ ObserverIdle /\ SinkInit

Next ==
    \/ \E p \in ChainPatterns, mw \in UserMiddleware(Len(handlers) + 1) :
          Len(handlers) < MaxHandlers /\ Use(p, mw)
    \/ \E c \in RootContexts : phase = "reg" /\ SetContext(c)
    \/ \E r \in ChainRequests : ServeHTTP(r)
    \/ CallHandler
    \/ CallRouter
    \/ CallNext
    \/ Return

Spec == Init /\ [][Next]_vars

\* Pattern matching: one passing middleware under each pattern, each request.
MatchPatterns == {Empty, Root, Api, ApiSlash, Ap, Other, ApiX}

MatchRequests ==
    {NilRequest} \cup
    {Request(p) : p \in {Empty, Root, Api, ApiSlash, ApiX, ApiKey, Ap, Other, Star}}

PassingMiddleware(n) ==
    {Middleware(n, "ctx", TRUE, FALSE), Middleware(n, "plain", TRUE, FALSE)}

NextMatch ==
    \/ \E p \in MatchPatterns, mw \in PassingMiddleware(Len(handlers) + 1) :
          Len(handlers) < MatchHandlers /\ Use(p, mw)
    \/ \E r \in MatchRequests : ServeHTTP(r)
    \/ CallHandler
    \/ CallRouter
    \/ CallNext
    \/ Return

SpecMatch == Init /\ [][NextMatch]_vars

\* The observer beside its server.
InitObserver == ChainInit /\ ObserverInit /\ SinkInit

NextObserver ==
    \/ Serve
    \/ Cancel
    \/ Accept
    \/ Finish
    \/ ServerStops
    \/ ShutdownComplete
    \/ \E b \in {"ctx", "stop"} : Observe(b)

SpecObserver == InitObserver /\ [][NextObserver]_vars

\* The observer goroutine is scheduled: when a case of its select stays ready
\* it takes one. Nothing obliges the context to be cancelled or the server
\* to stop.
SpecObserverFair ==
    /\ InitObserver
    /\ [][NextObserver]_vars
    /\ WF_vars(Observe("ctx"))
    /\ WF_vars(Observe("stop"))

\* One response writer over a recorder.
NextSink ==
    \/ DoBefore
    \/ \E code \in StatusCodes : DoWriteHeader(code)
    \/ \E n \in WriteSizes : DoWrite(n)

SpecSink == Init /\ [][NextSink]_vars

\* Middleware that commit a status through the response writer they are handed.
StatusPatterns == {Empty, Api}

StatusRequests == {NilRequest, Request(ApiX), Request(ApiKey)}

CommittingMiddleware(n) ==
    {Middleware(n, "handler", TRUE, FALSE),
     StatusMiddleware(n, FALSE, StatusBadRequest),
     StatusMiddleware(n, FALSE, StatusNotFound),
     StatusMiddleware(n, TRUE, StatusNotFound)}

NextStatus ==
    \/ \E p \in StatusPatterns, mw \in CommittingMiddleware(Len(handlers) + 1) :
          Len(handlers) < MaxHandlers /\ Use(p, mw)
    \/ \E r \in StatusRequests : ServeHTTP(r)
    \/ CallHandler
    \/ CallRouter
    \/ CallNext
    \/ Return

SpecStatus == Init /\ [][NextStatus]_vars

\* One response writer over a destination with any of the capabilities.
InitCapabilities ==
    /\ ChainInit
    /\ ObserverIdle
    /\ SinkFresh
    /\ cap \in {Destination(c) : c \in SUBSET Capabilities}

NextCapabilities ==
    \/ cap.result # "panic" /\ DoWriteHeader(StatusNotFound)
    \/ \E n \in WriteSizes \ {0} : cap.result # "panic" /\ DoWrite(n)
    \/ cap.result # "panic" /\ DoHijack
    \/ \E o \in Unreported : cap.result # "panic" /\ DoFlush(o)
    \/ \E o \in Unreported : cap.result # "panic" /\ DoCloseNotify(o)

SpecCapabilities == InitCapabilities /\ [][NextCapabilities]_vars

\* Registration in any order, of middleware and routes of supported and of
\* unsupported shapes, and the dispatch that follows it.
RegisterMiddleware(n) ==
    {Middleware(n, "handler", TRUE, FALSE), Middleware(n, "ctx", FALSE, FALSE),
     Middleware(n, "string", TRUE, FALSE)}

RegisterHandlers == {TerminalHandler("func"), TerminalHandler("string")}

NextRegister ==
    \/ \E mw \in RegisterMiddleware(Len(handlers) + 1) :
          Len(handlers) < MaxUses /\ Use(Empty, mw)
    \/ \E h \in RegisterHandlers : Get(Root, h)
    \/ \E h \in RegisterHandlers : Post(Root, h)
    \/ \E h \in RegisterHandlers :
          /\ Len(router.routes) < MaxRoutes \/ IsPanic(wrapHandlerFunc(h))
          /\ Handle("PUT", Root, h)
    \/ router.id = 1 /\ SetRouter(NewRouter(2))
    \/ \E c \in RootContexts : phase = "reg" /\ SetContext(c)
    \/ ServeHTTP(Request(Root))
    \/ CallHandler
    \/ CallRouter
    \/ CallNext
    \/ Return

SpecRegister == Init /\ [][NextRegister]_vars

\* The options a program sets before it makes its server.
OptionValues ==
    [ReadTimeout : {0, 30}, WriteTimeout : {0, 30}, MaxHeaderBytes : {0, 4096},
     TLSConfig : {"nil", "config"}, TLSNextProto : {"nil"}, ConnState : {"nil", "callback"},
     GracefulTimeout : {0, 5}, ListenLimit : {0, 100},
     ShutdownInitiated : {"nil", "callback"}, NoSignalHandling : BOOLEAN,
     ErrorLog : {"nil"}]

InitOptions ==
    /\ ChainInit
    /\ SinkInit
    /\ ctxDone = FALSE
    /\ srv = NoServer
    /\ inflight = 0
    /\ observer = [pc |-> "idle", branch |-> "none", cases |-> BothCases, ctx |-> Background]
    /\ stopCalls = << >>

NextOptions ==
    \/ \E o \in OptionValues \cup {NilOptions} : SetOptions(o)
    \/ MakeServer

SpecOptions == InitOptions /\ [][NextOptions]_vars

\* Requests served at once, after the registration.
NextConcurrent ==
    \/ \E mw \in PassingMiddleware(Len(handlers) + 1) :
          /\ Len(handlers) < MaxHandlers
          /\ \A g \in Goroutines : gor[g].pc = "idle"
          /\ Use(Empty, mw)
    \/ \E c \in RootContexts :
          (\A g \in Goroutines : gor[g].pc = "idle") /\ SetContext(c)
    \/ \E g \in Goroutines : DispatchAppend(g)
    \/ \E g \in Goroutines : DispatchServe(g)

SpecConcurrent == Init /\ [][NextConcurrent]_vars

\* The Dispatcher from its construction through serving to the server's stop:
\* nothing in SetContext looks at whether the server is serving.
NextLifecycle ==
    \/ \E mw \in PassingMiddleware(Len(handlers) + 1) :
          Len(handlers) < MatchHandlers /\ Use(Empty, mw)
    \/ \E c \in RootContexts : SetContext(c)
    \/ Serve
    \/ \E r \in {NilRequest, Request(Root)} : srv.state = "serving" /\ ServeHTTP(r)
    \/ CallHandler
    \/ CallRouter
    \/ CallNext
    \/ Return
    \/ Cancel
    \/ ServerStops
    \/ ShutdownComplete
    \/ \E b \in {"ctx", "stop"} : Observe(b)

SpecLifecycle == Init /\ [][NextLifecycle]_vars

\* Context-free middleware among middleware that derive a child context. A
\* context-free middleware may build a context of its own (derives), but the
\* next it is given takes only w and r.
PlainPatterns == {Root, Api}

PlainRequests == {NilRequest, Request(ApiX), Request(ApiKey)}

PlainMiddleware(n) ==
    {Middleware(n, "ctx", TRUE, TRUE), Middleware(n, "plain", TRUE, TRUE),
     Middleware(n, "plain", TRUE, FALSE)}

NextPlain ==
    \/ \E p \in PlainPatterns, mw \in PlainMiddleware(Len(handlers) + 1) :
          Len(handlers) < MaxHandlers /\ Use(p, mw)
    \/ \E c \in RootContexts : phase = "reg" /\ SetContext(c)
    \/ \E r \in PlainRequests : ServeHTTP(r)
    \/ CallHandler
    \/ CallRouter
    \/ CallNext
    \/ Return

SpecPlain == Init /\ [][NextPlain]_vars

\* Requests in their chains while the root context is cancelled at any moment.
NextCancel ==
    \/ \E p \in ChainPatterns, mw \in UserMiddleware(Len(handlers) + 1) :
          Len(handlers) < MaxUses /\ Use(p, mw)
    \/ \E c \in RootContexts : phase = "reg" /\ SetContext(c)
    \/ \E r \in ChainRequests : ServeHTTP(r)
    \/ CallHandler
    \/ CallRouter
    \/ CallNext
    \/ Return
    \/ Cancel

SpecCancel == Init /\ [][NextCancel]_vars

\* Both entry points of one Dispatcher: ServeHTTP and the function
\* HandlerFunc() returns, with Use and SetRouter calls before and after
\* HandlerFunc(), each request with a destination of its own.
Destinations == {1, 2}

FuncPatterns == {Root, Api}

FuncRequests == {Request(ApiX), Request(ApiKey)}

FuncMiddleware(n) ==
    {Middleware(n, "ctx", TRUE, TRUE), StatusMiddleware(n, TRUE, StatusNotFound)}

NextFunc ==
    \/ \E p \in FuncPatterns, mw \in FuncMiddleware(Len(handlers) + 1) :
          Len(handlers) < MaxUses /\ Use(p, mw)
    \/ SetRouter(NewRouter(2))
    \/ HandlerFunc
    \/ \E w \in Destinations, r \in FuncRequests : ServeHTTPTo(w, r)
    \/ \E w \in Destinations, r \in FuncRequests : CallFunc(w, r)
    \/ CallHandler
    \/ CallRouter
    \/ CallNext
    \/ Return

SpecFunc == Init /\ [][NextFunc]_vars

----------------------------------------------------------------------------
(* What the claims speak of *)

\* The pattern rule as the specification words it: a wildcard, or the path
\* with "/" appended has the pattern, ending with "/", as a prefix.
Normalized(pattern) ==
    IF pattern[Len(pattern)] = "/" THEN pattern ELSE pattern \o <<"/">>

IsWildcardPattern(pattern) == pattern = Empty \/ pattern = Root

FallsUnder(pattern, r) ==
    IsWildcardPattern(pattern) \/ HasPrefix(r.path \o <<"/">>, Normalized(pattern))

\* Whether the i-th registered middleware is meant to run for request r.
Matches(i, r) == r.isNil \/ FallsUnder(registered[i].pattern, r)

Dispatched == phase \in {"run", "done"}

Marks == [i \in 1..Len(trace) |-> <<trace[i].ev, trace[i].id>>]

IsPrefix(s, t) == Len(s) <= Len(t) /\ SubSeq(t, 1, Len(s)) = s

Reverse(s) == [i \in 1..Len(s) |-> s[Len(s) + 1 - i]]

RECURSIVE Indices(_)
Indices(n) == IF n = 0 THEN << >> ELSE Append(Indices(n - 1), n)

Befores(ids) == [i \in 1..Len(ids) |-> <<"B", ids[i]>>]

Afters(ids) == [i \in 1..Len(ids) |-> <<"A", ids[i]>>]

Ran(i) == \E k \in 1..Len(trace) : trace[k].ev = "B" /\ trace[k].id = i

RouterRan == \E k \in 1..Len(trace) : trace[k].ev = "R"

AllMatchAndCallNext ==
    \A i \in 1..Len(registered) : Matches(i, req) /\ registered[i].mw.callsNext

\* C1: when every registered interceptor matches the request and calls next
\* once, the events of a dispatch are I1-before, ..., In-before, the router's
\* handler, In-after, ..., I1-after, in that order and with nothing between.
C1_LifoNesting ==
    (Dispatched /\ AllMatchAndCallNext) =>
        LET ids == Indices(Len(registered))
            expected == Befores(ids) \o <<<<"R", 0>>>> \o Afters(Reverse(ids))
        IN  /\ IsPrefix(Marks, expected)
            /\ phase = "done" => Marks = expected

C1_Witness ==
    /\ phase = "done"
    /\ Len(registered) >= 2
    /\ AllMatchAndCallNext
    /\ ~req.isNil
    /\ Len(trace) = 2 * Len(registered) + 1

\* The interceptors that match the request and return without calling next.
Stoppers == {i \in 1..Len(registered) : Matches(i, req) /\ ~registered[i].mw.callsNext}

FirstStopper == CHOOSE k \in Stoppers : \A j \in Stoppers : k <= j

\* C2: when Ik is the first interceptor to return without calling next,
\* nothing registered after Ik runs, the router does not run, and the
\* interceptors that ran before Ik unwind in reverse order right after Ik.
C2_ShortCircuit ==
    (Dispatched /\ Stoppers # {}) =>
        LET k == FirstStopper
            before == SelectSeq(Indices(k - 1), LAMBDA i : Matches(i, req))
            expected == Befores(before) \o <<<<"B", k>>, <<"A", k>>>> \o Afters(Reverse(before))
        IN  /\ \A i \in 1..Len(registered) : i > k => ~Ran(i)
            /\ ~RouterRan
            /\ IsPrefix(Marks, expected)
            /\ phase = "done" => Marks = expected

C2_Witness ==
    /\ phase = "done"
    /\ Len(registered) >= 3
    /\ Stoppers # {}
    /\ FirstStopper = 2
    /\ Matches(1, req) /\ Matches(3, req)
    /\ Marks = <<<<"B", 1>>, <<"B", 2>>, <<"A", 2>>, <<"A", 1>>>>

\* The context the chain hands to position i (the router adapter is position
\* Len(registered) + 1): the root context with the child of every matching,
\* deriving interceptor before i applied in order.
RECURSIVE ContextAt(_)
ContextAt(i) ==
    IF i = 1 THEN rootCtx
    ELSE IF Matches(i - 1, req)
         THEN NextContext(registered[i - 1].mw, ContextAt(i - 1))
         ELSE ContextAt(i - 1)

Derives(i) ==
    /\ Matches(i, req)
    /\ registered[i].mw.callsNext
    /\ NextContext(registered[i].mw, ContextAt(i)) # ContextAt(i)

Position(e) == IF e.ev = "R" THEN Len(registered) + 1 ELSE e.id

\* C3 as stated: once Ik hands next a child context setting the key, every
\* interceptor after Ik and the terminal handler see Ik's value for the key.
C3_EveryoneDownstreamSeesTheChild ==
    Dispatched =>
        \A i \in 1..Len(registered) : \A k \in 1..Len(trace) :
            (Derives(i) /\ Position(trace[k]) > i) => Value(trace[k].ctx, "key") = i

\* C3, amended: every interceptor and the terminal handler see the context
\* handed down by the nearest interceptor before them (so the key has the value
\* of the nearest deriving interceptor upstream), an interceptor sees the same
\* context before and after next, and the root context is what it was.
C3_ContextFlowsForward ==
    Dispatched =>
        /\ \A k \in 1..Len(trace) : trace[k].ctx = ContextAt(Position(trace[k]))
        /\ \A k \in 1..Len(stack) :
              stack[k].m.handler.kind = "routing" =>
                 stack[k].ctx = ContextAt(stack[k].m.handler.handler.id)
        /\ \A i \in 1..Len(registered) : \A k \in 1..Len(trace) :
              (Derives(i) /\ Position(trace[k]) > i
                 /\ \A j \in (i + 1)..(Position(trace[k]) - 1) : ~Derives(j))
              => Value(trace[k].ctx, "key") = i
        /\ \A i \in 1..Len(registered) : \A k \in 1..Len(trace) :
              Position(trace[k]) <= i => Value(trace[k].ctx, "key") # i

C3_Witness ==
    /\ phase = "done"
    /\ Len(registered) >= 3
    /\ rootCtx # Background
    /\ Derives(1) /\ ~Derives(2) /\ Derives(3)
    /\ \E k \in 1..Len(trace) : trace[k].ev = "R" /\ Value(trace[k].ctx, "key") = 3
    /\ \E k \in 1..Len(trace) :
          trace[k].ev = "A" /\ trace[k].id = 1 /\ Value(trace[k].ctx, "key") = 0

\* The chain without the middleware that do not match: what the matching
\* ones and the router do, nested, from context ctx on.
RECURSIVE Nested(_, _)
Nested(mws, ctx) ==
    IF mws = << >> THEN <<Event("R", 0, ctx)>>
    ELSE LET mw == Head(mws)
         IN  IF mw.callsNext
             THEN <<Event("B", mw.id, ctx)>>
                  \o Nested(Tail(mws), NextContext(mw, ctx))
                  \o <<Event("A", mw.id, ctx)>>
             ELSE <<Event("B", mw.id, ctx), Event("A", mw.id, ctx)>>

MatchingOnly ==
    LET ids == SelectSeq(Indices(Len(registered)), LAMBDA i : Matches(i, req))
    IN  [k \in 1..Len(ids) |-> registered[ids[k]].mw]

\* C5: a middleware whose prefix the request path is not under does not run,
\* and its wrapper calls next with the context, sink and request it was given;
\* the dispatch then gives the events and contexts of the chain without it.
C5_PassThroughIsTransparent ==
    Dispatched =>
        /\ \A i \in 1..Len(registered) : ~Matches(i, req) => ~Ran(i)
        /\ \A k \in 1..(Len(stack) - 1) :
              stack[k].wait = "wrapper" =>
                 /\ stack[k + 1].m = stack[k].m.next
                 /\ stack[k + 1].ctx = stack[k].ctx
                 /\ stack[k + 1].w = stack[k].w
                 /\ stack[k + 1].r = stack[k].r
        /\ IsPrefix(trace, Nested(MatchingOnly, rootCtx))
        /\ phase = "done" => trace = Nested(MatchingOnly, rootCtx)

C5_Witness ==
    /\ phase = "done"
    /\ Len(registered) >= 3
    /\ Matches(1, req) /\ ~Matches(2, req) /\ Matches(3, req)
    /\ registered[1].mw.derives
    /\ AllMatchAndCallNext = FALSE
    /\ Marks = <<<<"B", 1>>, <<"B", 3>>, <<"R", 0>>, <<"A", 3>>, <<"A", 1>>>>

\* C4: a middleware under a non-wildcard pattern runs for a request exactly
\* when the path with "/" appended has the pattern, made to end with "/", as
\* a prefix: under "/api" and under "/api/" alike it runs for "/api", "/api/"
\* and "/api/x" and does not run for "/apikey".
C4_PrefixActivation ==
    phase = "done" =>
        \A i \in 1..Len(registered) :
            LET p == registered[i].pattern
            IN  /\ (~IsWildcardPattern(p) /\ ~req.isNil) =>
                      (Ran(i) <=> HasPrefix(req.path \o <<"/">>, Normalized(p)))
                /\ (p \in {Api, ApiSlash} /\ req \in {Request(Api), Request(ApiSlash), Request(ApiX)})
                      => Ran(i)
                /\ (p \in {Api, ApiSlash} /\ req = Request(ApiKey)) => ~Ran(i)

C4_Witness ==
    /\ phase = "done"
    /\ Len(registered) >= 1
    /\ registered[1].pattern = Api
    /\ req = Request(ApiKey)
    /\ ~Ran(1)
    /\ RouterRan

\* C6: a middleware under pattern "" or "/" runs for every request, whatever
\* its path and also when the request is nil, and the next it is given is the
\* wrapper's own next.
C6_WildcardAlwaysActivates ==
    Dispatched =>
        /\ \A k \in 1..(Len(stack) - 1) :
              (stack[k].wait = "mw"
                 /\ IsWildcardPattern(registered[stack[k].m.handler.handler.id].pattern))
              => stack[k + 1].m = stack[k].m.next
        /\ phase = "done" =>
              \A i \in 1..Len(registered) :
                  IsWildcardPattern(registered[i].pattern) => Ran(i)

C6_Witness ==
    /\ phase = "done"
    /\ Len(registered) >= 1
    /\ registered[1].pattern = Root
    /\ req = Request(Star)
    /\ Ran(1)
    /\ RouterRan

\* C7 as stated: whichever signal ends the observer's wait, the observer has
\* made exactly one Stop call when it exits.
C7_ExactlyOneStopOnEitherSignal ==
    observer.pc = "done" => Len(stopCalls) = 1

\* C7, amended: the observer makes at most one Stop call: exactly one, with
\* the server's grace period, when it leaves by the cancelled context; none
\* when it leaves by the server's stop channel; and none before or after that,
\* whichever signal fires later.
C7_AtMostOneStop ==
    /\ Len(stopCalls) <= 1
    /\ observer.pc # "done" => stopCalls = << >>
    /\ (observer.pc = "done" /\ observer.branch = "ctx") =>
          (ctxDone /\ stopCalls = <<srv.Timeout>>)
    /\ (observer.pc = "done" /\ observer.branch = "stop") =>
          (srv.stopChanClosed /\ stopCalls = << >>)

C7_Witness ==
    /\ observer.pc = "done"
    /\ observer.branch = "ctx"
    /\ observer.cases = BothCases
    /\ srv.Timeout > 0
    /\ srv.stopChanClosed
    /\ stopCalls = <<srv.Timeout>>

\* C8: a WriteHeader on a committed response writer changes nothing: not its
\* status, size or hooks, not the destination, and no hook runs again.
C8_LateWriteHeaderIsInert ==
    [][(rw.written /\ hist'.lastOp = "WriteHeader") =>
          (rw' = rw /\ dest' = dest /\ wire' = wire)]_vars

C8_Witness ==
    /\ hist.lastOp = "WriteHeader"
    /\ hist.late
    /\ hist.arg # rw.status
    /\ dest.code = rw.status
    /\ hist.hooksAtCommit >= 1

\* C9: when the response is committed, the hooks registered until then have
\* run once each, the last registered first, and all of them before the header
\* and any byte reached the destination; no hook runs before or after that.
C9_HooksReverseOnceBeforeHeader ==
    IF ~rw.written THEN wire = << >>
    ELSE LET n == hist.hooksAtCommit
         IN  /\ Len(wire) >= n + 1
             /\ \A i \in 1..n : wire[i] = WireEvent("hook", n + 1 - i)
             /\ wire[n + 1].kind = "header"
             /\ \A k \in (n + 2)..Len(wire) : wire[k].kind = "bytes"

C9_Witness ==
    /\ rw.written
    /\ hist.hooksAtCommit = 2
    /\ Len(wire) >= 4
    /\ wire[1] = WireEvent("hook", 2)
    /\ wire[2] = WireEvent("hook", 1)

\* C10: a response writer's status is 200 until WriteHeader or the first
\* Write; a first Write commits it with 200, and from the commit on the
\* destination's status is the writer's.
C10_DefaultStatus ==
    /\ ~rw.written => (rw.status = StatusOK /\ rw.size = 0 /\ ~dest.wroteHeader)
    /\ rw.written => (dest.wroteHeader /\ dest.code = rw.status)
    /\ hist.commitOp = "Write" => (rw.written /\ rw.status = StatusOK)

C10_Witness ==
    /\ hist.commitOp = "Write"
    /\ rw.written
    /\ rw.status = StatusOK
    /\ dest.code = StatusOK
    /\ rw.size > 0
    /\ hist.lastOp = "WriteHeader"
    /\ hist.arg # StatusOK

RECURSIVE Sum(_)
Sum(s) == IF s = << >> THEN 0 ELSE Head(s) + Sum(Tail(s))

BytesForwarded ==
    LET bytes == SelectSeq(wire, LAMBDA e : e.kind = "bytes")
    IN  [i \in 1..Len(bytes) |-> bytes[i].v]

\* C11: after every operation the size of the response writer is the sum of
\* the byte counts written so far, the destination holds those writes in
\* their order, the size has not decreased, and without a write it is 0.
C11_SizeIsSumOfWrites ==
    [][/\ rw'.size = Sum(hist'.writes)
       /\ dest'.body = Sum(hist'.writes)
       /\ BytesForwarded' = hist'.writes
       /\ rw'.size >= rw.size
       /\ hist'.writes = << >> => rw'.size = 0]_vars

C11_Witness ==
    /\ hist.writes = <<1, 2>>
    /\ hist.commitOp = "WriteHeader"
    /\ rw.size = 3
    /\ dest.body = 3

\* The chain of TestVermouthServeHTTP and the strings its middleware add to
\* the result.
TestChain ==
    <<[pattern |-> Empty, mw |-> Middleware(1, "handler", TRUE, FALSE)],
      [pattern |-> Empty, mw |-> Middleware(2, "handler", TRUE, FALSE)],
      [pattern |-> Empty, mw |-> StatusMiddleware(3, FALSE, StatusBadRequest)]>>

TestMarker(e) ==
    CASE e.ev = "B" /\ e.id = 1 -> <<"foo">>
      [] e.ev = "A" /\ e.id = 1 -> <<"ban">>
      [] e.ev = "B" /\ e.id = 2 -> <<"bar">>
      [] e.ev = "A" /\ e.id = 2 -> <<"baz">>
      [] e.ev = "B" /\ e.id = 3 -> <<"bat">>
      [] OTHER -> << >>

RECURSIVE TestResult(_)
TestResult(t) == IF t = << >> THEN << >> ELSE TestMarker(Head(t)) \o TestResult(Tail(t))

\* The interceptors that ran and commit a status, in the order they ran.
Committers ==
    SelectSeq(trace, LAMBDA e : e.ev = "B" /\ registered[e.id].mw.code # 0)

\* C12: the status the first interceptor to commit one gives WriteHeader is
\* the status of the response writer and the status the caller's destination
\* recorded, with no body byte written; the chain of foo/ban, bar/baz and
\* bat with status 400 yields foo bar bat baz ban and the status 400.
C12_StatusReachesDestination ==
    Dispatched =>
        /\ Committers # << >> =>
              LET code == registered[Committers[1].id].mw.code
              IN  /\ rw.written
                  /\ rw.status = code
                  /\ dest.code = code
                  /\ rw.size = 0
                  /\ dest.body = 0
        /\ (registered = TestChain /\ phase = "done") =>
              /\ TestResult(trace) = <<"foo", "bar", "bat", "baz", "ban">>
              /\ rw.status = StatusBadRequest
              /\ dest.code = StatusBadRequest

C12_Witness ==
    /\ phase = "done"
    /\ registered = TestChain
    /\ req.isNil
    /\ dest.code = StatusBadRequest
    /\ dest.body = 0

\* The step is an invocation of the capability op.
Invoked(op) == hist'.ops = hist.ops + 1 /\ hist'.lastOp = op

SinkUntouched == rw' = rw /\ dest' = dest /\ wire' = wire

\* The capability op reached the destination and nothing else did.
Delegated(op) ==
    /\ cap'.result = "ok"
    /\ cap'.hijacked = (cap.hijacked \/ op = "hijack")
    /\ cap'.flushed = (cap.flushed \/ op = "flush")
    /\ cap'.notifier = IF op = "closeNotify" THEN "dest" ELSE cap.notifier

MiddlewareShapes == {"handler", "ctx", "plain"}

HandlerShapes == {"ctxfunc", "func", "ContextHandler", "httpHandler"}

\* The step is a registration call that panicked.
Panicked == lastPanic' # NoPanic /\ lastPanic' # lastPanic

\* C14: a registration call that panics leaves the list of middleware and
\* the router with its routes as they were, and nothing of an unsupported
\* shape is ever in the list or among the routes for a request to meet.
C14_BadShapePanicsAndChangesNothing ==
    [][/\ Panicked =>
            /\ handlers' = handlers
            /\ router' = router
            /\ phase = "reg" /\ phase' = "reg"
       /\ \A i \in 1..Len(handlers') :
            handlers'[i].handler.shape \in MiddlewareShapes
       /\ \A j \in 1..Len(router'.routes) :
            router'.routes[j].handler.shape \in HandlerShapes]_vars

C14_Witness ==
    /\ lastPanic = [op |-> "Handle", value |-> "Unknown handler type"]
    /\ Len(handlers) = 2
    /\ Len(router.routes) = 1
    /\ regLog = <<"Use", "Handle", "Use">>

Count(log, op) == Len(SelectSeq(log, LAMBDA x : x = op))

\* C15: a Use call that returns puts one entry at the end of the list of
\* middleware and every other step leaves the list as it was, so the list
\* is as long as the number of Use calls that returned and its i-th entry
\* wraps the middleware and the pattern of the i-th of them.
C15_UseAppendsOne ==
    [][/\ IF regLog' = Append(regLog, "Use")
          THEN /\ Len(handlers') = Len(handlers) + 1
               /\ SubSeq(handlers', 1, Len(handlers)) = handlers
          ELSE handlers' = handlers
       /\ Len(handlers') = Count(regLog', "Use")
       /\ \A i \in 1..Len(handlers') :
            /\ handlers'[i].handler.id = i
            /\ handlers'[i].handler.id = registered'[i].mw.id
            /\ handlers'[i].handler.callsNext = registered'[i].mw.callsNext
            /\ handlers'[i].isWildcard = IsWildcardPattern(registered'[i].pattern)]_vars

C15_Witness ==
    /\ regLog = <<"Handle", "Use", "Use">>
    /\ Len(handlers) = 2
    /\ router.id = 2
    /\ rootCtx # Background
    /\ phase = "done"
    /\ Ran(1) /\ Ran(2)

EventAt(ev, id) == CHOOSE k \in 1..Len(trace) : trace[k].ev = ev /\ trace[k].id = id

\* C16: the chain of a dispatch is the registered middleware followed by the
\* router adapter as its last link, in whatever order Use and Handle were
\* called; the router runs at most once, and a middleware that ran and
\* called next has the router's run between its before- and its after-code.
C16_RouterIsLastLink ==
    Dispatched =>
        /\ phase = "run" =>
              Links(stack[1].m) =
                  [i \in 1..Len(handlers) + 1 |->
                      IF i <= Len(handlers) THEN "routing" ELSE "router"]
        /\ Count([k \in 1..Len(trace) |-> trace[k].ev], "R") <= 1
        /\ RouterRan =>
              \A k \in 1..Len(trace) :
                  trace[k].ev = "B" => k < EventAt("R", 0)
        /\ (phase = "done" /\ Stoppers = {}) =>
              /\ RouterRan
              /\ \A i \in 1..Len(handlers) :
                    EventAt("B", i) < EventAt("R", 0) /\ EventAt("R", 0) < EventAt("A", i)

C16_Witness ==
    /\ regLog = <<"Handle", "Use", "Use">>
    /\ phase = "done"
    /\ Stoppers = {}
    /\ Marks = <<<<"B", 1>>, <<"B", 2>>, <<"R", 0>>, <<"A", 2>>, <<"A", 1>>>>

\* The options in force: vm.Options, or the defaults when it is nil.
InForce == IF options = NilOptions THEN defaultOptions ELSE options

\* C17: the server NewServer returns has the read timeout, write timeout,
\* maximum header size, TLS configuration, connection-state callback, grace
\* period, listen limit, shutdown-initiated callback and no-signal-handling
\* flag of the options in force (the defaults, which suppress signal
\* handling, when Options is nil) and the Dispatcher as its handler.
C17_ServerCarriesEveryOption ==
    srv # NoServer =>
        /\ srv.ReadTimeout = InForce.ReadTimeout
        /\ srv.WriteTimeout = InForce.WriteTimeout
        /\ srv.MaxHeaderBytes = InForce.MaxHeaderBytes
        /\ srv.TLSConfig = InForce.TLSConfig
        /\ srv.ConnState = InForce.ConnState
        /\ srv.Timeout = InForce.GracefulTimeout
        /\ srv.ListenLimit = InForce.ListenLimit
        /\ srv.ShutdownInitiated = InForce.ShutdownInitiated
        /\ srv.NoSignalHandling = InForce.NoSignalHandling
        /\ options = NilOptions => srv.NoSignalHandling
        /\ srv.Handler = "vm"

\* C18: once the root context is cancelled or the server has stopped, the
\* observer that was started returns.
C18_ObserverTerminates ==
    (observer.pc = "select" /\ (ctxDone \/ srv.stopChanClosed)) ~> (observer.pc = "done")

\* C19: requests served at once only read the Dispatcher: none stores into
\* the list of middleware or into the array the list shares, the list is as
\* registered, and the chain of each is the registered middleware followed
\* by the router adapter.
C19_DispatchOnlyReads ==
    /\ sharedWrites = << >>
    /\ Len(handlers) = Len(registered)
    /\ \A g \in Goroutines :
          gor[g].pc = "done" =>
              gor[g].slice = [i \in 1..Len(handlers) + 1 |->
                                 IF i <= Len(handlers) THEN "routing" ELSE "router"]

\* C20: once Serve has started the observer, the context the observer waits
\* on, the root context of the Dispatcher and the context handed to the
\* chain of every request are one and the same.
C20_OneContextOnceServing ==
    observer.pc # "idle" =>
        /\ rootCtx = observer.ctx
        /\ phase = "run" => stack[1].ctx = observer.ctx

\* The step is the observer leaving its select.
ObserverLeaves == observer.pc = "select" /\ observer'.pc = "done"

RoutingFrames == {k \in 1..Len(stack) : stack[k].m.handler.kind = "routing"}

\* C25: for a nil request every wrapper calls its middleware, under a
\* non-wildcard pattern such as "/api" just as under a wildcard: no wrapper
\* passes the request on to its next itself, and every middleware that the
\* ones before it let through runs.
C25_NilRequestActivatesAll ==
    (Dispatched /\ req.isNil) =>
        /\ \A k \in RoutingFrames :
              LET h == stack[k].m.handler
              IN  /\ stack[k].r.isNil
                  /\ Body(h, stack[k].r) = Body([h EXCEPT !.isWildcard = TRUE], stack[k].r)
                  /\ stack[k].wait # "wrapper"
                  /\ \A n \in 1..Len(stack[k].todo) : stack[k].todo[n] # "next"
        /\ phase = "done" =>
              \A i \in 1..Len(registered) :
                  (\A j \in 1..(i - 1) : registered[j].mw.callsNext) => Ran(i)

C25_Witness ==
    /\ phase = "done"
    /\ req.isNil
    /\ Len(registered) = 3
    /\ registered[1].pattern = Api
    /\ registered[2].pattern = Root
    /\ registered[3].pattern = Api
    /\ Ran(1) /\ Ran(2) /\ Ran(3)
    /\ RouterRan

\* The i-th registered middleware has the context-free shape.
IsPlain(i) == registered[i].mw.shape = "plain"

RECURSIVE NodeHandlers(_)
NodeHandlers(m) ==
    IF m.handler.kind \in {"void", "nil"} THEN << >>
    ELSE <<m.handler>> \o NodeHandlers(m.next)

\* The node of chain m that ends NodeHandlers(m).
RECURSIVE LastNode(_)
LastNode(m) ==
    IF m.handler.kind \in {"void", "nil"} THEN m ELSE LastNode(m.next)

\* Chain m is the handlers of hs, in order, followed by the sentinel.
IsChainOf(m, hs) == NodeHandlers(m) = hs /\ LastNode(m) = voidMiddleware

\* The sentinel is being invoked.
SentinelOnTop == phase = "run" /\ stack # << >> /\ Top.m = voidMiddleware

\* C24: build of a list of n handlers is n nodes holding the handlers in list
\* order, each linked to the next and the last to the void sentinel, and
\* build of the empty list is the sentinel; the sentinel is invoked only by
\* the router adapter once the router has run, it has nothing to do, and its
\* return writes nothing to the sink, starts no other node and does not fail.
C24_ChainEndsInNoOpSentinel ==
    /\ [](LET hs == withRouter(handlers, router)
          IN  /\ build(<< >>) = voidMiddleware
              /\ \A n \in 0..Len(hs) : IsChainOf(build(SubSeq(hs, 1, n)), SubSeq(hs, 1, n))
              /\ phase = "run" => IsChainOf(stack[1].m, hs)
              /\ \A k \in 1..Len(stack) :
                    stack[k].m = voidMiddleware =>
                       /\ k = Len(stack)
                       /\ k > 1
                       /\ stack[k].todo = << >>
                       /\ stack[k - 1].m.handler.kind = "router"
                       /\ stack[k - 1].wait = "wrapper"
                       /\ RouterRan)
    /\ [][SentinelOnTop =>
            /\ stack' = Replace(SubSeq(stack, 1, Len(stack) - 1),
                                 [stack[Len(stack) - 1] EXCEPT !.wait = "none"])
            /\ trace' = trace
            /\ rw' = rw /\ dest' = dest /\ wire' = wire /\ hist' = hist
            /\ lastPanic' = lastPanic
            /\ phase' = "run"]_vars

C24_Witness ==
    /\ SentinelOnTop
    /\ Len(registered) = 3
    /\ Len(stack) = 5
    /\ RouterRan
    /\ rw.written
    /\ rw.status = StatusNotFound

\* C23: a cancellation of the root context changes nothing in a chain that is
\* executing: the dispatch goes on step by step and ends with the events it
\* has without a cancellation, every middleware that was entered unwinding;
\* from the cancellation on every context of the chain, the root or a child,
\* reports cancelled to whatever runs, and none reports otherwise later.
C23_CancellationIsAdvisory ==
    /\ [](/\ phase = "run" => stack # << >> /\ Top.wait = "none"
          /\ Dispatched =>
                /\ IsPrefix(trace, Nested(MatchingOnly, rootCtx))
                /\ phase = "done" => trace = Nested(MatchingOnly, rootCtx)
                /\ Len(seen) = Len(trace)
                /\ \A k \in 1..Len(seen) : \A j \in k..Len(seen) : seen[k] => seen[j]
          /\ ctxDone =>
                /\ Err(rootCtx) = Canceled
                /\ \A k \in 1..Len(stack) : Err(stack[k].ctx) = Canceled)
    /\ [][/\ ctxDone => ctxDone'
          /\ ctxDone' # ctxDone =>
                /\ stack' = stack
                /\ trace' = trace
                /\ phase' = phase
                /\ seen' = seen
          /\ (ctxDone /\ phase = "run") =>
                \A k \in (Len(seen) + 1)..Len(seen') : seen'[k]]_vars

C23_Witness ==
    /\ phase = "done"
    /\ ctxDone
    /\ Len(registered) = 2
    /\ registered[1].mw.derives
    /\ Marks = <<<<"B", 1>>, <<"B", 2>>, <<"R", 0>>, <<"A", 2>>, <<"A", 1>>>>
    /\ seen = <<FALSE, TRUE, TRUE, TRUE, TRUE>>

\* The middleware of the first n Use calls that match the request.
MatchingAmong(n) ==
    LET ids == SelectSeq(Indices(n), LAMBDA i : Matches(i, req))
    IN  [k \in 1..Len(ids) |-> registered[ids[k]].mw]

\* The routers whose adapters are being run.
RoutersOnStack ==
    {stack[k].m.handler.router.id :
        k \in {j \in 1..Len(stack) : stack[j].m.handler.kind = "router"}}

\* C22: every dispatch, through ServeHTTP or through the function returned by
\* HandlerFunc(), runs its chain against a response sink made for the
\* request, around the destination of the request and untouched when the
\* chain starts; no node of the chain is handed the destination itself.
C22_EveryDispatchHasItsOwnSink ==
    phase = "run" =>
        /\ \A k \in 1..Len(stack) :
              /\ IsSink(stack[k].w)
              /\ stack[k].w = NewResponseWriter(entry.w)
        /\ rw.dest = entry.w
        /\ trace = << >> => rw = NewResponseWriter(entry.w)

\* C26: the function returned by HandlerFunc() runs the middleware of the
\* Use calls made before HandlerFunc() and the router of that moment,
\* whatever Use and SetRouter did since; ServeHTTP runs the middleware of
\* every Use call so far and the router of now; with no Use and no SetRouter
\* since HandlerFunc(), the two run the same chain.
C26_FuncRunsTheChainOfItsMaking ==
    /\ (Dispatched /\ entry.point = "HandlerFunc") =>
          /\ entry.uses <= Len(registered)
          /\ IsPrefix(trace, Nested(MatchingAmong(entry.uses), rootCtx))
          /\ phase = "done" => trace = Nested(MatchingAmong(entry.uses), rootCtx)
          /\ RoutersOnStack \subseteq {entry.rt}
          /\ phase = "run" => entry.uses = hf.uses /\ entry.rt = hf.rt
    /\ (Dispatched /\ entry.point = "ServeHTTP") =>
          /\ entry.uses = Len(registered)
          /\ IsPrefix(trace, Nested(MatchingAmong(Len(registered)), rootCtx))
          /\ phase = "done" => trace = Nested(MatchingAmong(Len(registered)), rootCtx)
          /\ RoutersOnStack \subseteq {router.id}
    /\ (hf.made /\ hf.uses = Len(registered) /\ hf.rt = router.id) =>
          hf.md = build(withRouter(handlers, router))

C26_Witness ==
    /\ phase = "done"
    /\ entry.point = "HandlerFunc"
    /\ entry.uses = 1
    /\ entry.rt = 1
    /\ Len(registered) = 2
    /\ Matches(2, req)
    /\ router.id = 2
    /\ Marks = <<<<"B", 1>>, <<"R", 0>>, <<"A", 1>>>>

====
